---- MODULE Spec2Model ----
(***************************************************************************)
(* Model of the multi-source collection pipeline of AI-Company-Research:   *)
(* the universal data agent (URL generation, prioritisation, bounded       *)
(* concurrent scraping, aggregation, quality score), the comprehensive and *)
(* standard agents as far as the worker sees them, the Celery task         *)
(* run_startup_analysis with the startup_profiles collection, and the      *)
(* endpoints POST /analyze and GET /report with the Celery broker, the     *)
(* category extractors on one fetched page, and the MongoDB client         *)
(* getters of core/mongo_client.py.                                        *)
(*                                                                         *)
(* Python dicts are functions (records) whose DOMAIN is the key set; a     *)
(* dict whose iteration order matters is a sequence of [key, val] items.   *)
(* None is the string "None".                                              *)
(***************************************************************************)
EXTENDS Integers, Sequences, FiniteSets, TLC

VARIABLES
    \* ---- UniversalDataAgent._scrape_all_sources
    sources,          \* the batch: ordered dict source_name -> source_info
    pageKinds,        \* what the fetched sites may do in this behaviour (environment)
    semaphore,        \* value of asyncio.Semaphore(max_concurrent_scrapes)
    tasks,            \* per task i: pc, page served, extractor calls, result
    fetchCount,       \* per task i: entries into _scrape_single_universal_source
    results,          \* the dict _scrape_all_sources returns (ordered)
    bpc,              \* "idle" | "gathering" | "returned"
    \* ---- run_startup_analysis (one Celery task) and the agents
    args,             \* company_name, company_url, analysis_type of the task
    wpc,              \* position of the worker task
    analysis_result,  \* what the agent returned to the worker
    error_msg,        \* str(exc) in the worker's except clause
    task_state,       \* Celery state written by update_state / by the raise
    task_meta,        \* meta of the last update_state
    profiles,         \* db.startup_profiles: set of documents
    llm,              \* outcome of this run's chain.invoke call, None before it
    request_id,       \* self.request.id of the task the worker runs
    \* ---- _create_comprehensive_analysis called on its own (SpecAgg)
    source_data,      \* the input mapping source_name -> result (ordered)
    categorized_data, \* local of the last aggregation
    successful_sources, \* local of the last aggregation
    agg_out,          \* what the last aggregation returned
    aggRuns,          \* number of aggregations run on source_data
    \* ---- _generate_all_source_urls and _prioritize_sources on their own (SpecGen)
    gen_in,           \* company_name, company_url and size of the registry
    gen_urls,         \* what _generate_all_source_urls returned (ordered)
    prioritized,      \* what _prioritize_sources returned (ordered)
    gpc,              \* "idle" | "init" | "generated" | "prioritized"
    \* ---- the API process and the Celery broker (SpecApi)
    queue,            \* tasks sent with delay() and not yet taken by the worker
    submits,          \* per POST /analyze request: position, body, response
    issued,           \* number of Celery task ids issued so far
    report,           \* last GET /report/{company_id}: the id asked and the answer
    \* ---- _calculate_data_quality_score on a growing dataset (SpecScore)
    qual_data,        \* the categorized dataset: category -> source_name -> data
    qual_score,       \* its quality score, in hundredths
    qual_prev,        \* the score before the last source was added, and
                      \* whether that source opened a category
    \* ---- extraction from one fetched page (SpecExtract)
    ext_in,           \* the page (DOM answers), its category and source name
    ext_out,          \* what the fetch returned after extraction
    ext_calls,        \* the selectors queried and the body reads made
    \* ---- core/mongo_client.py in one process (SpecMongo)
    async_client,     \* global _async_client: a client object (1, 2, ..) or 0 for None
    sync_client,      \* global _sync_client: a client object or 0 for None
    pinged,           \* the client objects whose ping succeeded
    next_client,      \* client objects constructed so far
    mongo_up,         \* whether the server answers
    async_calls,      \* per coroutine calling get_async_mongo_client: position, outcome
    sync_call         \* outcome of the last get_sync_mongo_client call

batchVars == <<sources, pageKinds, semaphore, tasks, fetchCount, results, bpc>>
runVars   == <<args, wpc, analysis_result, error_msg, task_state, task_meta, profiles, llm,
               request_id>>
aggVars   == <<source_data, categorized_data, successful_sources, agg_out, aggRuns>>
genVars   == <<gen_in, gen_urls, prioritized, gpc>>
apiVars   == <<queue, submits, issued, report>>
scoreVars == <<qual_data, qual_score, qual_prev>>
extVars   == <<ext_in, ext_out, ext_calls>>
mongoVars == <<async_client, sync_client, pinged, next_client, mongo_up, async_calls,
               sync_call>>
auxVars   == <<scoreVars, extVars, mongoVars>>
vars      == <<batchVars, runVars, aggVars, genVars, apiVars, auxVars>>

----------------------------------------------------------------------------
\* Bounds of the model (not program constants).

\* registry entries (in source order) the agent of Spec is constructed with
NumRegistered == 3
\* sources beyond the pool size in the large batch of SpecBatch
MaxQueued == 1
\* entries of the input mapping of SpecAgg
MaxAggSources == 6
\* aggregations run on one input mapping in SpecAgg
MaxAggRuns == 2
\* client objects constructed in one SpecMongo behaviour
MaxClients == 3
\* lines of the long page body of SpecExtract
BodyLines == 14
\* sources of one category in the dataset of SpecScore
MaxPerCategory == 6
\* POST /analyze requests made in SpecApi
MaxSubmits == 2

----------------------------------------------------------------------------
\* Python helpers.

None == "None"

\* dict.get(k, default)
Get(d, k, default) == IF k \in DOMAIN d THEN d[k] ELSE default

\* keys of an ordered dict, as a set and in order
Keys(od) == {od[i].key : i \in DOMAIN od}
KeySeq(od) == [i \in DOMAIN od |-> od[i].key]

\* od[k] for a key that is present
Lookup(od, k) == od[CHOOSE i \in DOMAIN od : od[i].key = k].val

\* od[k] = v: replaces in place when k is present, appends otherwise
Put(od, k, v) ==
    IF k \in Keys(od)
    THEN [i \in DOMAIN od |-> IF od[i].key = k THEN [key |-> k, val |-> v] ELSE od[i]]
    ELSE Append(od, [key |-> k, val |-> v])

Range(f) == {f[x] : x \in DOMAIN f}

RECURSIVE SumOver(_, _)
SumOver(f, S) ==
    IF S = {} THEN 0
    ELSE LET x == CHOOSE y \in S : TRUE IN f[x] + SumOver(f, S \ {x})

----------------------------------------------------------------------------
\* UniversalDataAgent.__init__ and the source registry.

max_concurrent_scrapes == 10

\* insertion order of the dict literal of _initialize_data_sources
RegistryOrder ==
    << "crunchbase", "pitchbook", "angellist", "linkedin_company", "twitter",
       "facebook", "glassdoor", "indeed", "google_business", "yelp",
       "trustpilot", "builtwith", "similarweb", "google_news", "techcrunch",
       "product_hunt", "app_store", "github", "stackoverflow" >>

Src(ph, cat, prio) == [placeholder |-> ph, category |-> cat, priority |-> prio]

\* url_template is kept as the placeholder it contains; the text around the
\* placeholder is fixed per source and is identified by the source name
initialize_data_sources ==
    [ crunchbase       |-> Src("slug",   "financial",    "high"),
      pitchbook        |-> Src("slug",   "financial",    "high"),
      angellist        |-> Src("slug",   "financial",    "medium"),
      linkedin_company |-> Src("slug",   "professional", "high"),
      twitter          |-> Src("handle", "social",       "medium"),
      facebook         |-> Src("slug",   "social",       "low"),
      glassdoor        |-> Src("slug",   "employment",   "high"),
      indeed           |-> Src("slug",   "employment",   "medium"),
      google_business  |-> Src("name",   "reviews",      "medium"),
      yelp             |-> Src("slug",   "reviews",      "medium"),
      trustpilot       |-> Src("domain", "reviews",      "medium"),
      builtwith        |-> Src("domain", "technology",   "high"),
      similarweb       |-> Src("domain", "analytics",    "high"),
      google_news      |-> Src("name",   "news",         "high"),
      techcrunch       |-> Src("slug",   "news",         "medium"),
      product_hunt     |-> Src("slug",   "products",     "medium"),
      app_store        |-> Src("name",   "products",     "medium"),
      github           |-> Src("slug",   "technology",   "medium"),
      stackoverflow    |-> Src("name",   "technology",   "low") ]

\* self.data_sources of an agent built with the first n registry entries
data_sources(n) ==
    [i \in 1..n |-> [key |-> RegistryOrder[i],
                     val |-> initialize_data_sources[RegistryOrder[i]]]]

----------------------------------------------------------------------------
\* UniversalDataAgent._generate_all_source_urls

\* the five derived forms; each is a symbolic value of the identity it is
\* derived from (the name for slug, slug_underscore, name, handle; the URL
\* for domain)
slug_formats(company_name, company_url) ==
    [ slug            |-> <<"slug", company_name>>,
      slug_underscore |-> <<"slug_underscore", company_name>>,
      name            |-> <<"name", company_name>>,
      domain          |-> <<"domain", company_url>>,
      handle          |-> <<"handle", company_name>> ]

\* faulty variant: the main website is not added to the generated mapping
generate_all_source_urls_NoMain(ds, company_name, company_url) ==
    [urls |-> [i \in DOMAIN ds |->
        [key |-> ds[i].key,
         val |-> [url      |-> <<ds[i].key,
                                 slug_formats(company_name, company_url)[ds[i].val.placeholder]>>,
                  category |-> ds[i].val.category,
                  priority |-> ds[i].val.priority]]]]

\* company_url.replace(...) on None raises AttributeError outside the try;
\* nothing in the function looks at whether company_name is empty
generate_all_source_urls(ds, company_name, company_url) ==
    IF company_url = None
    THEN [raised |-> "AttributeError"]
    ELSE LET fmts == slug_formats(company_name, company_url)
             all_urls == [i \in DOMAIN ds |->
                 [key |-> ds[i].key,
                  val |-> [url      |-> <<ds[i].key, fmts[ds[i].val.placeholder]>>,
                           category |-> ds[i].val.category,
                           priority |-> ds[i].val.priority]]]
         IN  [urls |-> Put(all_urls, "main_website",
                           [url      |-> <<"main_website", <<"url", company_url>>>>,
                            category |-> "primary",
                            priority |-> "critical"])]

----------------------------------------------------------------------------
\* UniversalDataAgent._prioritize_sources

\* faulty variant: the last tier is never visited
priority_order_NoLow == <<"critical", "high", "medium">>

priority_order == <<"critical", "high", "medium", "low">>

RECURSIVE prioritize_from(_, _)
prioritize_from(all_urls, p) ==
    IF p > Len(priority_order) THEN <<>>
    ELSE SelectSeq(all_urls, LAMBDA it : it.val.priority = priority_order[p])
         \o prioritize_from(all_urls, p + 1)

prioritize_sources(all_urls) == prioritize_from(all_urls, 1)

----------------------------------------------------------------------------
\* UniversalDataAgent._scrape_single_universal_source

\* relevant_content[:10] of line 393, cleaned_content[:3000] of line 448
mentions_limit == 10
content_limit == 3000

\* what a site may do: serve a page with a proper title, a page titled
\* "Page Not Found", a page titled "404 Error", a page without a title, an
\* HTTP 500 answer whose page is titled "Internal Server Error", refuse the
\* navigation (page.goto raises), or not answer before the timeout of
\* page.goto
PageKinds == {"ok", "not_found", "http_404", "empty_title", "http_500",
              "nav_error", "timeout"}

\* the page kinds for which page.goto raises, with the message of the error
GotoRaises == {"nav_error", "timeout"}

goto_error(page) ==
    CASE page = "timeout"   -> "Timeout 15000ms exceeded"
      [] page = "nav_error" -> "net::ERR_NAME_NOT_RESOLVED"

\* response.status of the navigation
response_status(page) ==
    CASE page = "ok"          -> 200
      [] page = "not_found"   -> 404
      [] page = "http_404"    -> 404
      [] page = "empty_title" -> 200
      [] page = "http_500"    -> 500

\* page.title() as a sequence of words
page_title(page, source_name) ==
    CASE page = "ok"          -> <<"title", source_name>>
      [] page = "not_found"   -> <<"Page", "Not", "Found">>
      [] page = "http_404"    -> <<"404", "Error">>
      [] page = "empty_title" -> <<>>
      [] page = "http_500"    -> <<"Internal", "Server", "Error">>

\* str.lower() on a word
Lower(w) ==
    CASE w = "Page"  -> "page"
      [] w = "Not"   -> "not"
      [] w = "Found" -> "found"
      [] w = "Error" -> "error"
      [] w = "Funding" -> "funding"
      [] w = "Series"  -> "series"
      [] OTHER       -> w

\* faulty variant: only a missing title counts as not found
title_not_found_OnlyEmpty(title) == title = <<>>

\* line 301: not title or "404" in title or "not found" in title.lower()
title_not_found(title) ==
    \/ title = <<>>
    \/ \E i \in DOMAIN title : title[i] = "404"
    \/ \E i \in DOMAIN title :
           /\ i + 1 \in DOMAIN title
           /\ Lower(title[i]) = "not"
           /\ Lower(title[i + 1]) = "found"

\* _extract_by_category as the batch sees it: which extractor ran on the page
\* of which source (what the extractors do with a page follows below)
extract_by_category(category, source_name) ==
    [extracted_for |-> source_name, extractor |-> category]

\* number of calls of _extract_by_category one call of the fetch makes
\* (line 305 is reached only past the raise of line 302)
extractor_calls(source_info, page) ==
    IF /\ "url" \in DOMAIN source_info
       /\ page \in PageKinds \ GotoRaises
       /\ ~title_not_found(page_title(page, "any"))
    THEN 1 ELSE 0

\* what one call returns or raises, from its own source_info and the page the
\* site served.  A source_info without "url" raises KeyError at the first
\* line of the try, and again inside the except clause that builds the error
\* dict, so the call raises.
scrape_single_universal_source(source_name, source_info, page) ==
    IF "url" \notin DOMAIN source_info
    THEN [exc |-> "KeyError: 'url'"]
    ELSE IF page \in GotoRaises
    THEN [status   |-> "error",
          url      |-> source_info.url,
          category |-> source_info.category,
          error    |-> goto_error(page)]
    ELSE IF title_not_found(page_title(page, source_name))
    THEN [status   |-> "error",
          url      |-> source_info.url,
          category |-> source_info.category,
          error    |-> "Page not found or failed to load"]
    ELSE [status     |-> "success",
          url        |-> source_info.url,
          category   |-> source_info.category,
          data       |-> extract_by_category(source_info.category, source_name),
          page_title |-> page_title(page, source_name)]

----------------------------------------------------------------------------
\* The category extractors, on a page given by what its DOM answers:
\*   probes : selector -> "absent" (query_selector returns None), "blank"
\*            (an element of whitespace text), "text" (an element with text)
\*            or "raises" (the call raises); a selector not listed is absent
\*   body   : [kind |-> "raises"] when reading the page raises,
\*            [kind |-> "none"] for a page without body text, or
\*            [kind |-> "text", lines |-> the lines of the body]
\*   title  : page.title()
\* Text is a sequence of tokens: words, " " and "\n".

\* the selectors dicts, in source order
financial_selectors ==
    << [key |-> "funding_total",
        val |-> <<"[data-test=funding-total]", ".funding-total", ".total-funding">>],
       [key |-> "valuation",
        val |-> <<"[data-test=valuation]", ".valuation", ".company-valuation">>],
       [key |-> "founded_date",
        val |-> <<"[data-test=founded-date]", ".founded-date", ".founding-date">>],
       [key |-> "employees",
        val |-> <<"[data-test=employee-count]", ".employee-count", ".team-size">>],
       [key |-> "stage",
        val |-> <<"[data-test=funding-stage]", ".funding-stage", ".company-stage">>],
       [key |-> "investors",
        val |-> <<"[data-test=investors]", ".investors", ".investor-list">>] >>

linkedin_selectors ==
    << [key |-> "description",
        val |-> <<"[data-test-id=about-us-description]",
                  ".org-about-us-organization-description">>],
       [key |-> "industry",
        val |-> <<"[data-test-id=company-industry]", ".org-top-card-summary-info-list">>],
       [key |-> "headquarters",
        val |-> <<"[data-test-id=headquarters]", ".org-location">>],
       [key |-> "employee_count",
        val |-> <<"[data-test-id=employees-count]", ".org-employees-count">>],
       [key |-> "followers",
        val |-> <<"[data-test-id=followers-count]", ".follower-count">>] >>

professional_selectors ==
    << [key |-> "description",
        val |-> <<".company-description", ".about-company", ".company-summary">>],
       [key |-> "industry",
        val |-> <<".company-industry", ".industry", ".sector">>],
       [key |-> "size",
        val |-> <<".company-size", ".employee-count", ".team-size">>] >>

\* "linkedin" in source_name
has_linkedin(source_name) == source_name \in {"linkedin_company"}

\* str.strip()
RECURSIVE LStrip(_)
LStrip(text) ==
    IF text # <<>> /\ Head(text) \in {" ", "\n"} THEN LStrip(Tail(text)) ELSE text

RECURSIVE RStrip(_)
RStrip(text) ==
    IF text # <<>> /\ text[Len(text)] \in {" ", "\n"}
    THEN RStrip(SubSeq(text, 1, Len(text) - 1)) ELSE text

Strip(text) == RStrip(LStrip(text))

\* page.query_selector(selector), and element.text_content() of what it finds
ProbeOf(dom, selector) == Get(dom.probes, selector, "absent")

ElementText(dom, selector) ==
    CASE ProbeOf(dom, selector) = "text"  -> <<" ", selector, " ">>
      [] ProbeOf(dom, selector) = "blank" -> <<" ", " ">>

\* faulty variant: the last probe of the list that has text wins
RECURSIVE last_hit(_, _, _)
last_hit(dom, selector_list, k) ==
    IF k > Len(selector_list) THEN 0
    ELSE LET later == last_hit(dom, selector_list, k + 1)
         IN  IF later > 0 THEN later
             ELSE IF /\ ProbeOf(dom, selector_list[k]) \in {"text", "blank"}
                     /\ Strip(ElementText(dom, selector_list[k])) # <<>>
             THEN k ELSE 0

\* the loop "for selector in selector_list" from probe k on: the index of the
\* probe that breaks the loop, 0 if none does.  A probe that raises goes to
\* "except: continue"; one without element or without text falls through to
\* the next.
RECURSIVE first_hit(_, _, _)
first_hit(dom, selector_list, k) ==
    IF k > Len(selector_list) THEN 0
    ELSE IF /\ ProbeOf(dom, selector_list[k]) \in {"text", "blank"}
            /\ Strip(ElementText(dom, selector_list[k])) # <<>>
    THEN k
    ELSE first_hit(dom, selector_list, k + 1)

\* the loop "for field, selector_list in selectors.items()": the data dict
probe_fields(dom, selectors) ==
    LET hit == [i \in DOMAIN selectors |-> first_hit(dom, selectors[i].val, 1)]
        found == {i \in DOMAIN selectors : hit[i] > 0}
    IN  [field \in {selectors[i].key : i \in found} |->
            LET i == CHOOSE j \in found : selectors[j].key = field
            IN  Strip(ElementText(dom, selectors[i].val[hit[i]]))]

\* the selectors the loop hands to page.query_selector
queried_selectors(dom, selectors) ==
    LET hit == [i \in DOMAIN selectors |-> first_hit(dom, selectors[i].val, 1)]
    IN  UNION { {selectors[i].val[k] :
                    k \in 1..(IF hit[i] > 0 THEN hit[i] ELSE Len(selectors[i].val))}
                : i \in DOMAIN selectors }

financial_keywords ==
    {"funding", "valuation", "investor", "series", "million", "billion"}

\* any(keyword in line.lower() for keyword in keywords)
has_keyword(line, keywords) == \E k \in DOMAIN line : Lower(line[k]) \in keywords

\* relevant_content: the stripped lines of the body that have a keyword
relevant_content(lines, keywords) ==
    LET kept == SelectSeq(lines, LAMBDA line : has_keyword(line, keywords))
    IN  [i \in DOMAIN kept |-> Strip(kept[i])]

\* seq[:n]
Take(seq, n) == SubSeq(seq, 1, IF n < Len(seq) THEN n ELSE Len(seq))

\* _extract_financial_data: the probes, then ("if not data") the keyword scan
\* of the body; an exception of the body read is caught at line 395
extract_financial_data(dom, source_name) ==
    LET data == probe_fields(dom, financial_selectors)
    IN  IF data # <<>> THEN data
        ELSE IF dom.body.kind = "raises" THEN [extraction_error |-> "Target closed"]
        ELSE IF dom.body.kind = "none" THEN <<>>
        ELSE [financial_mentions |->
                 Take(relevant_content(dom.body.lines, financial_keywords), mentions_limit)]

\* _extract_professional_data: the probes only
extract_professional_data(dom, source_name) ==
    probe_fields(dom, IF has_linkedin(source_name)
                      THEN linkedin_selectors ELSE professional_selectors)

\* content of the body: the lines joined by "\n"
RECURSIVE JoinLines(_)
JoinLines(lines) ==
    IF lines = <<>> THEN <<>>
    ELSE IF Len(lines) = 1 THEN lines[1]
    ELSE lines[1] \o <<"\n">> \o JoinLines(Tail(lines))

\* re.sub(r'\s+', ' ', content)
RECURSIVE CollapseSpace(_)
CollapseSpace(text) ==
    IF text = <<>> THEN <<>>
    ELSE IF Head(text) \in {" ", "\n"}
    THEN <<" ">> \o CollapseSpace(LStrip(text))
    ELSE <<Head(text)>> \o CollapseSpace(Tail(text))

\* _extract_generic_data
extract_generic_data(dom) ==
    IF dom.body.kind = "raises" THEN [error |-> "Target closed"]
    ELSE LET content == IF dom.body.kind = "none" THEN <<>> ELSE JoinLines(dom.body.lines)
         IN  [title          |-> dom.title,
              content        |-> Take(Strip(CollapseSpace(content)), content_limit),
              content_length |-> Len(content)]

\* the extractor _extract_by_category dispatches to
category_extractor(dom, category, source_name) ==
    CASE category = "financial"    -> extract_financial_data(dom, source_name)
      [] category = "professional" -> extract_professional_data(dom, source_name)
      [] OTHER                     -> extract_generic_data(dom)

\* _extract_by_category on a page: an exception that leaves the extractor is
\* caught at line 350 and answered with the generic data
extract_page_by_category(dom, category, source_name) ==
    LET data == category_extractor(dom, category, source_name)
    IN  IF "exc" \in DOMAIN data THEN extract_generic_data(dom) ELSE data

\* the calls of page.text_content('body') the extraction makes
body_reads(dom, category, source_name) ==
    CASE category = "financial" ->
             IF probe_fields(dom, financial_selectors) = <<>> THEN 1 ELSE 0
      [] category = "professional" -> 0
      [] OTHER -> 1

----------------------------------------------------------------------------
\* ProfileAgent._scrape_website

\* what one call returns: line 169 raises on a missing response or a status
\* of 400 and above, and the except clause of line 224 turns every exception
\* into the error dict
scrape_website(url, page) ==
    IF page \in GotoRaises
    THEN [url |-> url, title |-> <<>>, status |-> "error",
          error |-> goto_error(page)]
    ELSE IF response_status(page) >= 400
    THEN [url |-> url, title |-> <<>>, status |-> "error",
          error |-> "Failed to load page: HTTP " \o ToString(response_status(page))]
    ELSE [url |-> url, title |-> page_title(page, "company"),
          status |-> "success"]

----------------------------------------------------------------------------
\* UniversalDataAgent._scrape_all_sources

NoResult == [pending |-> TRUE]

IsException(r) == "exc" \in DOMAIN r

\* state on entry: semaphore created, one coroutine per source handed to gather
NewTasks(srcs) ==
    [i \in DOMAIN srcs |-> [pc |-> "created", page |-> None, extracted |-> 0, result |-> NoResult]]

InFlight == {i \in DOMAIN tasks : tasks[i].pc = "fetching"}

\* faulty variant: the pool admits a task whether or not a slot is free
CanAcquireNoLimit(i) ==
    \A j \in DOMAIN tasks : j < i => tasks[j].pc # "created"

\* "async with semaphore": tasks are started by gather in list order and
\* asyncio.Semaphore wakes waiters first-in first-out, so task i enters after
\* every earlier task has entered.
CanAcquire(i) ==
    /\ semaphore > 0
    /\ \A j \in DOMAIN tasks : j < i => tasks[j].pc # "created"

\* task i acquires a slot and enters _scrape_single_universal_source.  A
\* malformed source_info raises before the first await: the slot is released
\* in the same step.
Acquire(i) ==
    /\ bpc = "gathering"
    /\ tasks[i].pc = "created"
    /\ CanAcquire(i)
    /\ fetchCount' = [fetchCount EXCEPT ![i] = @ + 1]
    /\ IF "url" \in DOMAIN sources[i].val
       THEN /\ tasks' = [tasks EXCEPT ![i].pc = "fetching"]
            /\ semaphore' = semaphore - 1
       ELSE /\ tasks' = [tasks EXCEPT ![i] =
                   [pc |-> "done", page |-> None, extracted |-> 0,
                    result |-> scrape_single_universal_source(
                                   sources[i].key, sources[i].val, None)]]
            /\ semaphore' = semaphore
    /\ UNCHANGED <<sources, pageKinds, results, bpc, runVars, aggVars, genVars, apiVars, auxVars>>

\* faulty variant: the fetches share one browser, and a failed fetch takes the other
\* fetches in flight down with it
FetchReturnSharedBrowser(i, page) ==
    /\ bpc = "gathering"
    /\ tasks[i].pc = "fetching"
    /\ page \in pageKinds
    /\ LET victims == IF page = "ok" THEN {} ELSE InFlight \ {i}
       IN  /\ tasks' = [j \in DOMAIN tasks |->
                  IF j = i
                  THEN [pc |-> "done", page |-> page,
                        extracted |-> extractor_calls(sources[i].val, page),
                        result |-> scrape_single_universal_source(
                                       sources[i].key, sources[i].val, page)]
                  ELSE IF j \in victims
                  THEN [pc |-> "done", page |-> None, extracted |-> 0,
                        result |-> scrape_single_universal_source(
                                       sources[j].key, sources[j].val, page)]
                  ELSE tasks[j]]
           /\ semaphore' = semaphore + 1 + Cardinality(victims)
    /\ UNCHANGED <<sources, pageKinds, fetchCount, results, bpc, runVars, aggVars, genVars, apiVars, auxVars>>

\* faulty variant: a fetch that failed is tried once more
FetchReturnRetry(i, page) ==
    /\ bpc = "gathering"
    /\ tasks[i].pc = "fetching"
    /\ page \in pageKinds
    /\ LET result == scrape_single_universal_source(sources[i].key, sources[i].val, page)
       IN  tasks' = [tasks EXCEPT ![i] =
               IF result.status = "error" /\ fetchCount[i] < 2
               THEN [pc |-> "created", page |-> None, extracted |-> 0, result |-> NoResult]
               ELSE [pc |-> "done", page |-> page,
                     extracted |-> extractor_calls(sources[i].val, page),
                     result |-> result]]
    /\ semaphore' = semaphore + 1
    /\ UNCHANGED <<sources, pageKinds, fetchCount, results, bpc, runVars, aggVars, genVars, apiVars, auxVars>>

\* faulty variant: the slot is released only when the fetch succeeded
FetchReturnKeepSlotOnError(i, page) ==
    /\ bpc = "gathering"
    /\ tasks[i].pc = "fetching"
    /\ page \in pageKinds
    /\ tasks' = [tasks EXCEPT ![i] =
           [pc |-> "done", page |-> page,
            extracted |-> extractor_calls(sources[i].val, page),
            result |-> scrape_single_universal_source(
                           sources[i].key, sources[i].val, page)]]
    /\ semaphore' = IF tasks'[i].result.status = "success"
                    THEN semaphore + 1 ELSE semaphore
    /\ UNCHANGED <<sources, pageKinds, fetchCount, results, bpc, runVars, aggVars, genVars, apiVars, auxVars>>

\* the fetch of task i ends (page loaded, not found, or timed out); the
\* coroutine returns and leaves "async with", releasing the slot
FetchReturn(i, page) ==
    /\ bpc = "gathering"
    /\ tasks[i].pc = "fetching"
    /\ page \in pageKinds
    /\ tasks' = [tasks EXCEPT ![i] =
           [pc |-> "done", page |-> page,
            extracted |-> extractor_calls(sources[i].val, page),
            result |-> scrape_single_universal_source(
                           sources[i].key, sources[i].val, page)]]
    /\ semaphore' = semaphore + 1
    /\ UNCHANGED <<sources, pageKinds, fetchCount, results, bpc, runVars, aggVars, genVars, apiVars, auxVars>>

\* faulty variant: captured exceptions are skipped instead of recorded
ProcessResultsDropExc(srcs, scrape_results) ==
    LET kept == SelectSeq([i \in DOMAIN srcs |-> i],
                          LAMBDA i : ~IsException(scrape_results[i]))
    IN  [j \in DOMAIN kept |-> [key |-> srcs[kept[j]].key,
                                val |-> scrape_results[kept[j]]]]

\* "Process results": scrape_results[i] belongs to the i-th key of sources; an
\* exception gather captured becomes an error entry
ProcessResults(srcs, scrape_results) ==
    [i \in DOMAIN srcs |->
        [key |-> srcs[i].key,
         val |-> IF IsException(scrape_results[i])
                 THEN [status |-> "error", error |-> scrape_results[i].exc]
                 ELSE scrape_results[i]]]

\* gather(*tasks, return_exceptions=True) has every result; the loop builds
\* the returned dict
Collect ==
    /\ bpc = "gathering"
    /\ \A i \in DOMAIN tasks : tasks[i].pc = "done"
    /\ results' = ProcessResults(sources, [i \in DOMAIN tasks |-> tasks[i].result])
    /\ bpc' = "returned"
    /\ UNCHANGED <<sources, pageKinds, semaphore, tasks, fetchCount, runVars, aggVars, genVars, apiVars, auxVars>>

----------------------------------------------------------------------------
\* UniversalDataAgent._calculate_data_quality_score
\*
\* Arithmetic is exact: weights are in tenths, a category's fill
\* min(len(sources) * 0.2, 1.0) is in tenths, and the returned score is in
\* hundredths (10000 is 100.0), which is what round(final_score, 2) keeps.

category_weights ==
    [ primary |-> 10, financial |-> 9, professional |-> 8, employment |-> 7,
      reviews |-> 6, technology |-> 5, news |-> 4, social |-> 3 ]

\* faulty variant: a category without a listed weight weighs nothing
WeightOfZeroDefault(category) == Get(category_weights, category, 0)

\* category_weights.get(category, 0.2)
WeightOf(category) == Get(category_weights, category, 2)

Min(a, b) == IF a <= b THEN a ELSE b

\* round(): nearest, ties to even
RoundDiv(num, den) ==
    LET q == num \div den
        r == num % den
    IN  IF 2 * r > den \/ (2 * r = den /\ q % 2 = 1) THEN q + 1 ELSE q

\* faulty variant: the fill of a category is not capped at 1.0
CategoryFillUncapped(n) == n * 2

\* min(len(sources) * 0.2, 1.0), in tenths
CategoryFill(n) == Min(n * 2, 10)

\* faulty variant: the weighted score is also divided by total_sources (the
\* sum of line 588, which the code computes and leaves unused)
calculate_data_quality_score_PerSource(cd) ==
    LET cats == DOMAIN cd
        total_sources == SumOver([c \in cats |-> Cardinality(DOMAIN cd[c])], cats)
        max_possible_score == SumOver([c \in cats |-> WeightOf(c)], cats)
        weighted_score ==
            SumOver([c \in cats |->
                        CategoryFill(Cardinality(DOMAIN cd[c])) * WeightOf(c)], cats)
    IN  IF max_possible_score > 0
        THEN RoundDiv(weighted_score * 1000, max_possible_score * total_sources)
        ELSE 0

calculate_data_quality_score(cd) ==
    LET cats == DOMAIN cd
        max_possible_score == SumOver([c \in cats |-> WeightOf(c)], cats)
        weighted_score ==
            SumOver([c \in cats |->
                        CategoryFill(Cardinality(DOMAIN cd[c])) * WeightOf(c)], cats)
    IN  IF max_possible_score > 0
        THEN RoundDiv(weighted_score * 1000, max_possible_score)
        ELSE 0

----------------------------------------------------------------------------
\* UniversalDataAgent._create_comprehensive_analysis

\* d[k] = v on an unordered dict
DictPut(d, k, v) == [x \in DOMAIN d \cup {k} |-> IF x = k THEN v ELSE d[x]]

\* faulty variant: the two accumulators survive from the previous call
KeepLocals(cd, ss) == [cd |-> cd, ss |-> ss]

\* "categorized_data = {}" and "successful_sources = []" at the top of the
\* call, whatever an earlier call left behind
FreshLocals(cd, ss) == [cd |-> <<>>, ss |-> <<>>]

\* faulty variant: every source that has data is taken, whatever its status
IsTakenAnyStatus(result) == Get(result, "status", None) \in {"success", "error"}

\* the test of the loop: result.get("status") == "success"
IsTaken(result) == Get(result, "status", None) = "success"

\* one iteration of "for source_name, result in source_data.items()"
CategorizeStep(acc, source_name, result) ==
    IF IsTaken(result)
    THEN LET category == Get(result, "category", "unknown")
             inner == Get(acc.cd, category, <<>>)
         IN  [cd |-> DictPut(acc.cd, category,
                             DictPut(inner, source_name, Get(result, "data", <<>>))),
              ss |-> Append(acc.ss, source_name)]
    ELSE acc

RECURSIVE Categorize(_, _, _)
Categorize(acc, sd, i) ==
    IF i > Len(sd) THEN acc
    ELSE Categorize(CategorizeStep(acc, sd[i].key, sd[i].val), sd, i + 1)

\* what chain.invoke returns when the model answers (the parsed output)
LlmOutput == [summary |-> "summary"]

\* the dict the call returns, from the accumulated locals and the outcome of
\* the summarizer call ("ok", or "fail" when chain.invoke raises)
comprehensive_analysis_result(company_name, company_url, sd, acc, llmo) ==
    IF llmo = "ok"
    THEN [company_name           |-> company_name,
          company_url            |-> company_url,
          status                 |-> "success",
          sources_analyzed       |-> Len(acc.ss),
          successful_sources     |-> acc.ss,
          categories_covered     |-> DOMAIN acc.cd,
          comprehensive_analysis |-> LlmOutput,
          raw_data               |-> acc.cd,
          data_quality_score     |-> calculate_data_quality_score(acc.cd)]
    ELSE [company_name |-> company_name,
          company_url  |-> company_url,
          status       |-> "error",
          error        |-> "summarizer failed",
          partial_data |-> sd]

create_comprehensive_analysis(company_name, company_url, sd, llmo) ==
    comprehensive_analysis_result(company_name, company_url, sd,
        Categorize(FreshLocals(<<>>, <<>>), sd, 1), llmo)

LlmOutcomes == {"ok", "fail"}

\* one call of _create_comprehensive_analysis on source_data (SpecAgg)
Aggregate(llmo) ==
    /\ aggRuns < MaxAggRuns
    /\ wpc = "idle" /\ bpc = "idle"
    /\ LET acc == Categorize(FreshLocals(categorized_data, successful_sources),
                             source_data, 1)
       IN  /\ categorized_data' = acc.cd
           /\ successful_sources' = acc.ss
           /\ agg_out' = comprehensive_analysis_result(
                             "Acme Corp", "https://acme.example", source_data, acc, llmo)
    /\ aggRuns' = aggRuns + 1
    /\ source_data' = source_data
    /\ UNCHANGED <<batchVars, runVars, genVars, apiVars, auxVars>>

----------------------------------------------------------------------------
\* MultiSourceAnalysisAgent.run_multi_source_analysis, as the worker sees it

multi_source_names ==
    << "main_website", "linkedin_company", "linkedin_search", "crunchbase",
       "glassdoor", "google_search", "angel_list", "pitchbook" >>

\* launch: "ok", or "fail" when async_playwright()/chromium.launch raises in
\* _scrape_multiple_sources; ok_sources: the sources whose scrape succeeded;
\* llmo: outcome of chain.invoke in _analyze_combined_data
run_multi_source_analysis(company_name, company_url, launch, ok_sources, llmo) ==
    IF launch = "fail"
    THEN [company_name |-> company_name, company_url |-> company_url,
          status |-> "error", error |-> "browser launch failed"]
    ELSE IF llmo = "fail"
    THEN [company_name |-> company_name, company_url |-> company_url,
          status |-> "error", error |-> "summarizer failed",
          source_data |-> ok_sources]
    ELSE [company_name      |-> company_name,
          company_url       |-> company_url,
          status            |-> "success",
          enhanced_analysis |-> LlmOutput,
          source_data       |-> ok_sources,
          data_sources_used |-> ok_sources]

----------------------------------------------------------------------------
\* CompanyProfileAgent.run

ScrapeOutcomes == {"error", "insufficient", "ok"}

\* scrape: what _scrape_website gave ("error": status error; "insufficient":
\* fewer than 100 characters of content); llmo: outcome of chain.invoke
profile_agent_run(url, scrape, llmo) ==
    IF scrape = "error"
    THEN [company_url |-> url, status |-> "error",
          error |-> "Failed to scrape website"]
    ELSE IF scrape = "insufficient"
    THEN [company_url |-> url, status |-> "error",
          error |-> "Insufficient content found on the website"]
    ELSE IF llmo = "fail"
    THEN [company_url |-> url, status |-> "error",
          error |-> "summarizer failed"]
    ELSE [company_url   |-> url,
          status        |-> "success",
          website_title |-> "title",
          analysis      |-> LlmOutput]

----------------------------------------------------------------------------
\* db.startup_profiles (unique index on company_url, mongo_client.py:137)

TaskId == "task-1"

\* the record analyze_startup inserts after queueing the task
PendingRecord(a) ==
    [id |-> 1, company_name |-> a.company_name, company_url |-> a.company_url,
     status |-> "pending", task_id |-> TaskId]

Ids == {d.id : d \in profiles}
NewId == IF Ids = {} THEN 1 ELSE 1 + CHOOSE m \in Ids : \A x \in Ids : x <= m

\* {"$set": new} on document old
SetFields(old, new) ==
    [k \in DOMAIN old \cup DOMAIN new |-> IF k \in DOMAIN new THEN new[k] ELSE old[k]]

ByUrl(url) == {d \in profiles : d.company_url = url}
ByTask(task_id) == {d \in profiles : d.task_id = task_id}

\* faulty variant: the collection has no unique index
DuplicateKeyNever(coll, doc) == FALSE

\* unique index on company_url: insert_one raises a duplicate key error
\* when a document of the collection has the same company_url
DuplicateKey(coll, doc) == \E d \in coll : d.company_url = doc.company_url

\* str(_id) of the document with id n, and ObjectId(company_id): the id for
\* a string of that form, 0 for a string bson rejects
ObjectIdStr(n) == "oid-" \o ToString(n)
ObjectId(company_id) ==
    IF \E n \in 1..(2 * MaxSubmits) : ObjectIdStr(n) = company_id
    THEN CHOOSE n \in 1..(2 * MaxSubmits) : ObjectIdStr(n) = company_id
    ELSE 0

----------------------------------------------------------------------------
\* run_startup_analysis

Falsy(x) == x = None \/ x = ""

\* lines 54-57
total_steps(a) ==
    (IF Falsy(a.company_url) THEN 8 ELSE 6)
    + (IF a.analysis_type = "universal" THEN 2 ELSE 0)

\* lines 51-70
TaskStart ==
    /\ wpc = "queued"
    /\ task_state' = "STARTED"
    /\ task_meta' = [progress |-> 0, total_steps |-> total_steps(args)]
    /\ wpc' = "started"
    /\ UNCHANGED <<args, request_id, analysis_result, error_msg, profiles, llm, batchVars, aggVars, genVars, apiVars, auxVars>>

\* lines 72-138: discovery is disabled, so a missing URL raises; otherwise
\* the agent for the analysis type is built and the analysis step announced
TaskInitAgent ==
    /\ wpc = "started"
    /\ task_state' = "PROGRESS"
    /\ IF Falsy(args.company_url)
       THEN /\ task_meta' = [progress |-> 1, total_steps |-> total_steps(args)]
            /\ error_msg' = <<"Company URL is required">>
            /\ wpc' = "except"
       ELSE /\ task_meta' = [progress |-> 2, total_steps |-> total_steps(args)]
            /\ error_msg' = error_msg
            /\ wpc' = "run"
    /\ UNCHANGED <<args, request_id, analysis_result, profiles, llm, batchVars, aggVars, genVars, apiVars, auxVars>>

\* faulty variant: a type that is not known is run with the widest analysis
run_method_UnknownAsUniversal(analysis_type) ==
    IF analysis_type = "comprehensive" THEN "run_multi_source_analysis"
    ELSE IF analysis_type = "standard" THEN "run"
    ELSE "run_universal_analysis"

\* lines 146-158: the agent method the worker calls for an analysis type
run_method(analysis_type) ==
    IF analysis_type = "universal" THEN "run_universal_analysis"
    ELSE IF analysis_type = "comprehensive" THEN "run_multi_source_analysis"
    ELSE "run"

\* run_universal_analysis, lines 154-165: URLs, priorities, and the entry of
\* _scrape_all_sources (semaphore and one coroutine per source)
UniversalGenerate ==
    /\ wpc = "run"
    /\ run_method(args.analysis_type) = "run_universal_analysis"
    /\ LET gen == generate_all_source_urls(data_sources(NumRegistered),
                                           args.company_name, args.company_url)
       IN  IF "raised" \in DOMAIN gen
           THEN /\ analysis_result' =
                       [company_name |-> args.company_name,
                        company_url |-> args.company_url,
                        status |-> "error", error |-> gen.raised]
                /\ wpc' = "check"
                /\ UNCHANGED batchVars
           ELSE LET srcs == prioritize_sources(gen.urls)
                IN  /\ sources' = srcs
                    /\ semaphore' = max_concurrent_scrapes
                    /\ tasks' = NewTasks(srcs)
                    /\ fetchCount' = [i \in DOMAIN srcs |-> 0]
                    /\ results' = <<>>
                    /\ bpc' = "gathering"
                    /\ wpc' = "scraping"
                    /\ UNCHANGED <<pageKinds, analysis_result>>
    /\ UNCHANGED <<args, request_id, error_msg, task_state, task_meta, profiles, llm, aggVars, genVars, apiVars, auxVars>>

\* run_universal_analysis, lines 167-181: aggregation and the summarizer call
UniversalAggregate(llmo) ==
    /\ wpc = "scraping"
    /\ bpc = "returned"
    /\ analysis_result' = create_comprehensive_analysis(
                              args.company_name, args.company_url, results, llmo)
    /\ llm' = llmo
    /\ wpc' = "check"
    /\ UNCHANGED <<args, request_id, error_msg, task_state, task_meta, profiles, batchVars, aggVars, genVars, apiVars, auxVars>>

\* lines 151-155
ComprehensiveAnalysis(launch, ok_sources, llmo) ==
    /\ wpc = "run"
    /\ run_method(args.analysis_type) = "run_multi_source_analysis"
    /\ analysis_result' = run_multi_source_analysis(
                              args.company_name, args.company_url,
                              launch, ok_sources, llmo)
    /\ llm' = IF launch = "ok" THEN llmo ELSE None
    /\ wpc' = "check"
    /\ UNCHANGED <<args, request_id, error_msg, task_state, task_meta, profiles, batchVars, aggVars, genVars, apiVars, auxVars>>

\* lines 156-158: "standard or any other type defaults to standard"
StandardAnalysis(scrape, llmo) ==
    /\ wpc = "run"
    /\ run_method(args.analysis_type) = "run"
    /\ analysis_result' = profile_agent_run(args.company_url, scrape, llmo)
    /\ llm' = IF scrape = "ok" THEN llmo ELSE None
    /\ wpc' = "check"
    /\ UNCHANGED <<args, request_id, error_msg, task_state, task_meta, profiles, batchVars, aggVars, genVars, apiVars, auxVars>>

\* faulty variant: the agent's status is not looked at
TaskCheckIgnoreStatus ==
    /\ wpc = "check"
    /\ task_state' = "PROGRESS"
    /\ task_meta' = [progress |-> 3, total_steps |-> 6]
    /\ wpc' = "embed"
    /\ UNCHANGED <<args, request_id, analysis_result, error_msg, profiles, llm, batchVars, aggVars, genVars, apiVars, auxVars>>

\* lines 162-178
TaskCheck ==
    /\ wpc = "check"
    /\ IF Get(analysis_result, "status", None) = "error"
       THEN /\ error_msg' = <<"Agent analysis failed",
                              Get(analysis_result, "error", "Unknown error")>>
            /\ wpc' = "except"
            /\ UNCHANGED <<task_state, task_meta>>
       ELSE /\ task_state' = "PROGRESS"
            /\ task_meta' = [progress |-> 3, total_steps |-> 6]
            /\ wpc' = "embed"
            /\ UNCHANGED error_msg
    /\ UNCHANGED <<args, request_id, analysis_result, profiles, llm, batchVars, aggVars, genVars, apiVars, auxVars>>

\* lines 180-214: analysis_result["analysis"]["summary"] raises KeyError when
\* the agent's dict has no "analysis" key
TaskEmbed ==
    /\ wpc = "embed"
    /\ IF "analysis" \in DOMAIN analysis_result
       THEN /\ task_state' = "PROGRESS"
            /\ task_meta' = [progress |-> 5, total_steps |-> 6]
            /\ wpc' = "save"
            /\ UNCHANGED error_msg
       ELSE /\ error_msg' = <<"KeyError", "analysis">>
            /\ wpc' = "except"
            /\ UNCHANGED <<task_state, task_meta>>
    /\ UNCHANGED <<args, request_id, analysis_result, profiles, llm, batchVars, aggVars, genVars, apiVars, auxVars>>

\* lines 219-249
Document(embedding) ==
    [company_name   |-> args.company_name,
     company_url    |-> args.company_url,
     analysis_type  |-> args.analysis_type,
     analysis       |-> [summary |-> analysis_result.analysis.summary],
     summary_vector |-> embedding,
     status         |-> "completed",
     task_id        |-> request_id]

\* lines 216-316: insert_one, and on the duplicate-key error of the unique
\* index update_one on the document of the same company_url.  embedding is
\* "vector", or "empty" when generate_embedding raised (lines 182-187).
TaskSave(embedding) ==
    /\ wpc = "save"
    /\ LET document == Document(embedding)
       IN  IF ~DuplicateKey(profiles, document)
           THEN profiles' = profiles \cup {SetFields([id |-> NewId], document)}
           ELSE LET existing == CHOOSE d \in ByUrl(args.company_url) : TRUE
                IN  profiles' = (profiles \ {existing})
                                    \cup {SetFields(existing, document)}
    /\ task_state' = "SUCCESS"
    /\ task_meta' = [progress |-> 6, total_steps |-> 6]
    /\ wpc' = "done"
    /\ UNCHANGED <<args, request_id, analysis_result, error_msg, llm, batchVars, aggVars, genVars, apiVars, auxVars>>

\* lines 329-337
ErrorDocument ==
    [company_name |-> args.company_name,
     company_url  |-> args.company_url,
     status       |-> "failed",
     error        |-> error_msg,
     task_id      |-> request_id]

\* lines 318-366: the except clause
TaskFail ==
    /\ wpc = "except"
    /\ IF ByUrl(args.company_url) = {}
       THEN profiles' = profiles \cup {SetFields([id |-> NewId], ErrorDocument)}
       ELSE LET existing == CHOOSE d \in ByUrl(args.company_url) : TRUE
            IN  profiles' = (profiles \ {existing})
                                \cup {SetFields(existing, ErrorDocument)}
    /\ task_state' = "FAILURE"
    /\ task_meta' = [error |-> error_msg]
    /\ wpc' = "failed"
    /\ UNCHANGED <<args, request_id, analysis_result, error_msg, llm, batchVars, aggVars, genVars, apiVars, auxVars>>

----------------------------------------------------------------------------
\* endpoints.get_analysis_status

get_analysis_status(task_id) ==
    LET docs == ByTask(task_id)
        mongo_doc == CHOOSE d \in docs : TRUE
    IN  IF docs # {} /\ mongo_doc.status = "completed"
        THEN [task_id |-> task_id, status |-> "SUCCESS", error |-> <<>>]
        ELSE IF docs # {} /\ mongo_doc.status = "failed"
        THEN [task_id |-> task_id, status |-> "FAILURE",
              error |-> Get(mongo_doc, "error", <<"Task failed">>)]
        ELSE [task_id |-> task_id, status |-> task_state,
              error |-> IF task_state = "FAILURE"
                        THEN <<"Task failed - check logs for details">>
                        ELSE <<>>]

----------------------------------------------------------------------------
\* endpoints.analyze_startup, one action per stretch between two awaits

\* task.id of the n-th task sent to the broker
CeleryTaskId(n) == "task-" \o ToString(n)

\* faulty variant: the cache lookup does not look at the analysis type
cache_criteria_AnyType(d, req) ==
    /\ Get(d, "status", None) = "completed"
    /\ IF ~Falsy(req.company_url)
       THEN Get(d, "company_url", None) = req.company_url
       ELSE Get(d, "company_name", None) = req.company_name

\* lines 69-79: search_criteria of the cache lookup
cache_criteria(d, req) ==
    /\ Get(d, "status", None) = "completed"
    /\ IF ~Falsy(req.company_url)
       THEN Get(d, "company_url", None) = req.company_url
       ELSE Get(d, "company_name", None) = req.company_name
    /\ Get(d, "analysis_type", None) = req.analysis_type

\* lines 97-100: the filter of the pending lookup
pending_criteria(d, req) ==
    /\ Get(d, "company_url", None) = req.company_url
    /\ Get(d, "status", None) \in {"pending", "in_progress"}

NewSubmit(req) == [pc |-> "new", req |-> req, task |-> None, response |-> None]

\* lines 61-94: find_one on the cache criteria; a hit is answered with the
\* id of the document found
SubmitLookup(r) ==
    /\ submits[r].pc = "new"
    /\ LET hits == {d \in profiles : cache_criteria(d, submits[r].req)}
       IN  \/ /\ hits = {}
              /\ submits' = [submits EXCEPT ![r].pc = "checked"]
           \/ \E existing_analysis \in hits :
                  submits' = [submits EXCEPT
                                 ![r].pc = "responded",
                                 ![r].response = ObjectIdStr(existing_analysis.id)]
    /\ UNCHANGED <<queue, issued, report, batchVars, runVars, aggVars, genVars, auxVars>>

\* lines 96-130: find_one on the pending criteria; a hit with a task id is
\* answered with it, otherwise the task is sent to the broker with delay()
SubmitPending(r) ==
    /\ submits[r].pc = "checked"
    /\ LET hits == {d \in profiles : pending_criteria(d, submits[r].req)}
       IN  \/ /\ \A d \in hits : Falsy(Get(d, "task_id", None))
              /\ submits' = [submits EXCEPT ![r].pc = "queued",
                                            ![r].task = CeleryTaskId(issued + 1)]
              /\ queue' = Append(queue, [id |-> CeleryTaskId(issued + 1),
                                         args |-> submits[r].req])
              /\ issued' = issued + 1
           \/ \E pending_analysis \in hits :
                  /\ ~Falsy(Get(pending_analysis, "task_id", None))
                  /\ submits' = [submits EXCEPT
                                     ![r].pc = "responded",
                                     ![r].response = pending_analysis.task_id]
                  /\ UNCHANGED <<queue, issued>>
    /\ UNCHANGED <<report, batchVars, runVars, aggVars, genVars, auxVars>>

\* lines 123-130
pending_record(req, task) ==
    [company_name |-> req.company_name, company_url |-> req.company_url,
     status |-> "pending", task_id |-> task]

\* lines 132-143: insert_one of the pending record, a failure of which is
\* only logged, and the answer with the id of the new task
SubmitInsert(r) ==
    /\ submits[r].pc = "queued"
    /\ LET record == pending_record(submits[r].req, submits[r].task)
       IN  IF DuplicateKey(profiles, record)
           THEN profiles' = profiles
           ELSE profiles' = profiles \cup {SetFields([id |-> NewId], record)}
    /\ submits' = [submits EXCEPT ![r].pc = "responded",
                                  ![r].response = submits[r].task]
    /\ UNCHANGED <<queue, issued, report, batchVars, aggVars, genVars,
                   args, request_id, wpc, analysis_result, error_msg, task_state,
                   task_meta, llm, auxVars>>

\* the Celery worker takes the oldest task of the broker and calls
\* run_startup_analysis with its arguments
WorkerTake ==
    /\ wpc \in {"idle", "done", "failed"}
    /\ queue # <<>>
    /\ args' = Head(queue).args
    /\ request_id' = Head(queue).id
    /\ queue' = Tail(queue)
    /\ wpc' = "queued"
    /\ analysis_result' = NoResult
    /\ error_msg' = <<>>
    /\ task_state' = "PENDING"
    /\ task_meta' = <<>>
    /\ llm' = None
    /\ UNCHANGED <<profiles, submits, issued, report, batchVars, aggVars, genVars, auxVars>>

----------------------------------------------------------------------------
\* endpoints.get_company_report

\* faulty variant: the document is looked up by its id alone
get_company_report_AnyStatus(company_id) ==
    IF ObjectId(company_id) = 0
    THEN [code |-> 400, detail |-> "Invalid company ID format"]
    ELSE LET docs == {d \in profiles : d.id = ObjectId(company_id)}
         IN  IF docs = {}
             THEN [code |-> 404, detail |-> "Company analysis not found or not completed"]
             ELSE LET company_doc == CHOOSE d \in docs : TRUE
                  IN  [code |-> 200, company_id |-> company_id,
                       company_name |-> company_doc.company_name,
                       summary |-> Get(Get(company_doc, "analysis", <<>>), "summary",
                                       "No summary available")]

\* lines 287-348
get_company_report(company_id) ==
    IF ObjectId(company_id) = 0
    THEN [code |-> 400, detail |-> "Invalid company ID format"]
    ELSE LET docs == {d \in profiles : /\ d.id = ObjectId(company_id)
                                       /\ Get(d, "status", None) = "completed"}
         IN  IF docs = {}
             THEN [code |-> 404, detail |-> "Company analysis not found or not completed"]
             ELSE LET company_doc == CHOOSE d \in docs : TRUE
                  IN  [code |-> 200, company_id |-> company_id,
                       company_name |-> company_doc.company_name,
                       summary |-> Get(Get(company_doc, "analysis", <<>>), "summary",
                                       "No summary available")]

\* one GET /report/{company_id}
GetReport(company_id) ==
    /\ report' = [company_id |-> company_id, response |-> get_company_report(company_id)]
    /\ UNCHANGED <<queue, submits, issued, batchVars, runVars, aggVars, genVars, auxVars>>

----------------------------------------------------------------------------
\* Specifications

CompanyNames == {"", "Acme Corp"}
CompanyUrls == {None, "https://acme.example"}
AnalysisTypes == {"standard", "comprehensive", "universal", "invalid_type"}

IdleBatch ==
    /\ sources = <<>>
    /\ pageKinds = PageKinds
    /\ semaphore = max_concurrent_scrapes
    /\ tasks = <<>>
    /\ fetchCount = <<>>
    /\ results = <<>>
    /\ bpc = "idle"

IdleRun ==
    /\ args = [company_name |-> "Acme Corp", company_url |-> "https://acme.example",
               analysis_type |-> "universal"]
    /\ wpc = "idle"
    /\ analysis_result = NoResult
    /\ error_msg = <<>>
    /\ task_state = "PENDING"
    /\ task_meta = <<>>
    /\ profiles = {}
    /\ llm = None
    /\ request_id = None

IdleAgg ==
    /\ source_data = <<>>
    /\ categorized_data = <<>>
    /\ successful_sources = <<>>
    /\ agg_out = NoResult
    /\ aggRuns = 0

IdleGen ==
    /\ gen_in = <<>>
    /\ gen_urls = <<>>
    /\ prioritized = <<>>
    /\ gpc = "idle"

IdleApi ==
    /\ queue = <<>>
    /\ submits = <<>>
    /\ issued = 0
    /\ report = <<>>

IdleScore ==
    /\ qual_data = <<>>
    /\ qual_score = 0
    /\ qual_prev = <<>>

IdleExt ==
    /\ ext_in = <<>>
    /\ ext_out = NoResult
    /\ ext_calls = <<>>

NoCall == [kind |-> "none", client |-> 0]

IdleMongo ==
    /\ async_client = 0
    /\ sync_client = 0
    /\ pinged = {}
    /\ next_client = 0
    /\ mongo_up = TRUE
    /\ async_calls = <<>>
    /\ sync_call = NoCall

IdleAux == IdleScore /\ IdleExt /\ IdleMongo

\* Spec: one Celery task run_startup_analysis, queued with any arguments; the
\* pending record of analyze_startup is in the collection or not yet
Init ==
    /\ args \in [company_name : CompanyNames, company_url : CompanyUrls,
                 analysis_type : AnalysisTypes]
    /\ wpc = "queued"
    /\ analysis_result = NoResult
    /\ error_msg = <<>>
    /\ task_state = "PENDING"
    /\ task_meta = <<>>
    /\ profiles \in {{}, {PendingRecord(args)}}
    /\ llm = None
    /\ request_id = TaskId
    /\ IdleBatch
    /\ IdleAgg
    /\ IdleGen
    /\ IdleApi
    /\ IdleAux

Next ==
    \/ TaskStart
    \/ TaskInitAgent
    \/ UniversalGenerate
    \/ \E i \in DOMAIN tasks : Acquire(i)
    \/ \E i \in DOMAIN tasks, page \in PageKinds : FetchReturn(i, page)
    \/ Collect
    \/ \E llmo \in LlmOutcomes : UniversalAggregate(llmo)
    \/ \E launch \in {"ok", "fail"}, ok_sources \in {{}, Range(multi_source_names)},
          llmo \in LlmOutcomes : ComprehensiveAnalysis(launch, ok_sources, llmo)
    \/ \E scrape \in ScrapeOutcomes, llmo \in LlmOutcomes : StandardAnalysis(scrape, llmo)
    \/ TaskCheck
    \/ TaskEmbed
    \/ \E embedding \in {"vector", "empty"} : TaskSave(embedding)
    \/ TaskFail

Spec == Init /\ [][Next]_vars

\* SpecBatch: _scrape_all_sources called on a batch.  The small batch is what
\* a universal run generates, with at most one source_info lacking "url" and
\* every page behaviour; the large batch has more sources than pool slots and
\* sites that all answer or all time out.
BatchIdentity == [name |-> "Acme Corp", url |-> "https://acme.example"]

GeneratedBatch(n) ==
    prioritize_sources(
        generate_all_source_urls(data_sources(n), BatchIdentity.name,
                                 BatchIdentity.url).urls)

\* the batch with the "url" key of entry m removed (m = 0: none removed)
Malformed(srcs, m) ==
    [i \in DOMAIN srcs |->
        IF i = m
        THEN [key |-> srcs[i].key,
              val |-> [category |-> srcs[i].val.category,
                       priority |-> srcs[i].val.priority]]
        ELSE srcs[i]]

SmallBatch == GeneratedBatch(NumRegistered)
LargeBatch == GeneratedBatch(max_concurrent_scrapes + MaxQueued - 1)

InitBatch ==
    /\ \/ /\ \E m \in 0..Len(SmallBatch) : sources = Malformed(SmallBatch, m)
          /\ pageKinds = PageKinds
       \/ /\ sources = LargeBatch
          /\ pageKinds \in {{"ok"}, {"timeout"}}
    /\ semaphore = max_concurrent_scrapes
    /\ tasks = NewTasks(sources)
    /\ fetchCount = [i \in DOMAIN sources |-> 0]
    /\ results = <<>>
    /\ bpc = "gathering"
    /\ IdleRun
    /\ IdleAgg
    /\ IdleGen
    /\ IdleApi
    /\ IdleAux

NextBatch ==
    \/ \E i \in DOMAIN tasks : Acquire(i)
    \/ \E i \in DOMAIN tasks, page \in PageKinds : FetchReturn(i, page)
    \/ Collect

SpecBatch == InitBatch /\ [][NextBatch]_vars

\* SpecBatchLive: the same, on an event loop that goes on running what is
\* ready.  A coroutine that can enter the semaphore is resumed, a fetch in
\* flight ends (page.goto returns or raises within its timeout of
\* max_timeout ms), and gather returns once every coroutine is done.
SpecBatchLive ==
    /\ SpecBatch
    /\ WF_vars(\E i \in DOMAIN tasks : Acquire(i))
    /\ WF_vars(\E i \in DOMAIN tasks, page \in PageKinds : FetchReturn(i, page))
    /\ WF_vars(Collect)

\* SpecAgg: _create_comprehensive_analysis called, up to MaxAggRuns times, on
\* one mapping of MaxAggSources results
AggNames == SubSeq(RegistryOrder, 1, MaxAggSources)

\* the kinds of entry: a success in a weighted category, a success in a
\* category without a weight, an error dict of the fetch, and the entry
\* built from a captured exception (no category)
AggKinds == {"financial", "analytics", "error", "raised"}

AggResult(source_name, kind) ==
    IF kind = "raised"
    THEN [status |-> "error", error |-> "KeyError: 'url'"]
    ELSE IF kind = "error"
    THEN [status |-> "error", url |-> <<source_name>>, category |-> "financial",
          error |-> "Page not found or failed to load"]
    ELSE [status |-> "success", url |-> <<source_name>>, category |-> kind,
          data |-> extract_by_category(kind, source_name),
          page_title |-> <<"title", source_name>>]

InitAgg ==
    /\ \E kinds \in [1..MaxAggSources -> AggKinds] :
           source_data = [i \in 1..MaxAggSources |->
                             [key |-> AggNames[i], val |-> AggResult(AggNames[i], kinds[i])]]
    /\ categorized_data = <<>>
    /\ successful_sources = <<>>
    /\ agg_out = NoResult
    /\ aggRuns = 0
    /\ IdleRun
    /\ IdleBatch
    /\ IdleGen
    /\ IdleApi
    /\ IdleAux

NextAgg == \E llmo \in LlmOutcomes : Aggregate(llmo)

SpecAgg == InitAgg /\ [][NextAgg]_vars

\* SpecGen: _generate_all_source_urls and then _prioritize_sources, as
\* run_universal_analysis calls them (lines 158 and 161), for an agent built
\* with the first n entries of the registry.  The worker calls the agent only
\* with a company URL (tasks.py:75-89); the name may be anything.
GenGenerate ==
    /\ gpc = "init"
    /\ gen_urls' = generate_all_source_urls(data_sources(gen_in.n), gen_in.company_name,
                                            gen_in.company_url).urls
    /\ gpc' = "generated"
    /\ UNCHANGED <<gen_in, prioritized, batchVars, runVars, aggVars, apiVars, auxVars>>

GenPrioritize ==
    /\ gpc = "generated"
    /\ prioritized' = prioritize_sources(gen_urls)
    /\ gpc' = "prioritized"
    /\ UNCHANGED <<gen_in, gen_urls, batchVars, runVars, aggVars, apiVars, auxVars>>

InitGen ==
    /\ gen_in \in [company_name : CompanyNames,
                    company_url : CompanyUrls \ {None},
                    n : 0..Len(RegistryOrder)]
    /\ gen_urls = <<>>
    /\ prioritized = <<>>
    /\ gpc = "init"
    /\ IdleBatch
    /\ IdleRun
    /\ IdleAgg
    /\ IdleApi
    /\ IdleAux

NextGen == GenGenerate \/ GenPrioritize

SpecGen == InitGen /\ [][NextGen]_vars

\* SpecApi: the API process serving MaxSubmits POST /analyze requests and
\* any GET /report requests, the broker, and one Celery worker process
\* running the tasks one after the other.  The requests are for one company;
\* the sources of a universal run are not part of this specification.
ApiTypes == {"standard", "comprehensive"}
ApiRequests ==
    [company_name : {"Acme Corp"}, company_url : {"https://acme.example"},
     analysis_type : ApiTypes]
ReportIds == {ObjectIdStr(1), ObjectIdStr(2), "invalid-company-id"}

InitApi ==
    /\ \E reqs \in [1..MaxSubmits -> ApiRequests] :
           submits = [r \in 1..MaxSubmits |-> NewSubmit(reqs[r])]
    /\ queue = <<>>
    /\ issued = 0
    /\ report = <<>>
    /\ IdleRun
    /\ IdleBatch
    /\ IdleAgg
    /\ IdleGen
    /\ IdleAux

NextApi ==
    \/ \E r \in DOMAIN submits : SubmitLookup(r)
    \/ \E r \in DOMAIN submits : SubmitPending(r)
    \/ \E r \in DOMAIN submits : SubmitInsert(r)
    \/ \E company_id \in ReportIds : GetReport(company_id)
    \/ WorkerTake
    \/ TaskStart
    \/ TaskInitAgent
    \/ \E launch \in {"ok", "fail"}, ok_sources \in {{}, Range(multi_source_names)},
          llmo \in LlmOutcomes : ComprehensiveAnalysis(launch, ok_sources, llmo)
    \/ \E scrape \in ScrapeOutcomes, llmo \in LlmOutcomes : StandardAnalysis(scrape, llmo)
    \/ TaskCheck
    \/ TaskEmbed
    \/ \E embedding \in {"vector", "empty"} : TaskSave(embedding)
    \/ TaskFail

SpecApi == InitApi /\ [][NextApi]_vars

\* SpecScore: _calculate_data_quality_score on a dataset that grows by one
\* successful source at a time, as the loop of _create_comprehensive_analysis
\* (lines 494-502) builds it.  Two categories have a high weight, one a low
\* weight and one has no listed weight.
ScoreCategories == {"primary", "financial", "social", "analytics"}

SourcesIn(cd, c) == IF c \in DOMAIN cd THEN Cardinality(DOMAIN cd[c]) ELSE 0

\* one more iteration of the loop for a successful source of category c, and
\* the score of the dataset it leaves
AddSource(c) ==
    /\ SourcesIn(qual_data, c) < MaxPerCategory
    /\ LET source_name == <<c, SourcesIn(qual_data, c) + 1>>
           acc == CategorizeStep([cd |-> qual_data, ss |-> <<>>], source_name,
                                 AggResult(source_name, c))
       IN  /\ qual_data' = acc.cd
           /\ qual_score' = calculate_data_quality_score(acc.cd)
    /\ qual_prev' = [score |-> qual_score, opened |-> c \notin DOMAIN qual_data]
    /\ UNCHANGED <<batchVars, runVars, aggVars, genVars, apiVars, extVars, mongoVars>>

InitScore ==
    /\ IdleScore
    /\ IdleExt
    /\ IdleMongo
    /\ IdleBatch
    /\ IdleRun
    /\ IdleAgg
    /\ IdleGen
    /\ IdleApi

NextScore == \E c \in ScoreCategories : AddSource(c)

SpecScore == InitScore /\ [][NextScore]_vars

\* SpecExtract: lines 305-315 of _scrape_single_universal_source on one page
\* that loaded with a proper title: the extraction, and the success dict
\* returned.  The sources are registry entries of a category with probes
\* (financial, professional), of a named category without probes (social),
\* of a category without extractor (analytics), and the company's own site.
ExtractSources ==
    { [source_name |-> "crunchbase",       category |-> "financial"],
      [source_name |-> "linkedin_company", category |-> "professional"],
      [source_name |-> "twitter",          category |-> "social"],
      [source_name |-> "similarweb",       category |-> "analytics"],
      [source_name |-> "company_main",     category |-> "primary"] }

SelectorsOf(src) ==
    CASE src.category = "financial" -> financial_selectors
      [] src.category = "professional" ->
             IF has_linkedin(src.source_name)
             THEN linkedin_selectors ELSE professional_selectors
      [] OTHER -> <<>>

ProbeOutcomes == {"absent", "blank", "text", "raises"}

\* a body of BodyLines lines of which every seventh has no keyword
LongBody ==
    [i \in 1..BodyLines |->
        IF i % 7 = 0 THEN <<"contact", ToString(i)>>
        ELSE <<" ", "investor", ToString(i), " ">>]

Bodies ==
    { [kind |-> "raises"],
      [kind |-> "none"],
      [kind |-> "text", lines |-> << <<"About", "us">>, <<" ", " ">>, <<"Careers">> >>],
      [kind |-> "text",
       lines |-> << <<" ", "Acme", "raised", " ", "Series", "A", " ">>,
                    <<"About", "us">>, <<"Funding", "news">> >>],
      [kind |-> "text", lines |-> LongBody] }

\* the pages: every answer of the probes of one field, the first probe of
\* the next field with text or absent, every other selector absent
Doms(src) ==
    LET selectors == SelectorsOf(src)
    IN  IF selectors = <<>>
        THEN {[probes |-> <<>>, body |-> b, title |-> <<"title", src.source_name>>]
                 : b \in Bodies}
        ELSE UNION { { [probes |->
                          [sel \in Range(selectors[f].val)
                                   \cup (IF more THEN {selectors[(f % Len(selectors)) + 1].val[1]}
                                                 ELSE {}) |->
                              IF \E k \in DOMAIN selectors[f].val : selectors[f].val[k] = sel
                              THEN o[CHOOSE k \in DOMAIN selectors[f].val :
                                         selectors[f].val[k] = sel]
                              ELSE "text"],
                        body |-> b,
                        title |-> <<"title", src.source_name>>]
                       : o \in [DOMAIN selectors[f].val -> ProbeOutcomes],
                         more \in BOOLEAN, b \in Bodies }
                   : f \in DOMAIN selectors }

Extract ==
    /\ ext_in # <<>>
    /\ ext_out = NoResult
    /\ ext_out' = [status     |-> "success",
                   url        |-> <<ext_in.source_name>>,
                   category   |-> ext_in.category,
                   data       |-> extract_page_by_category(
                                      ext_in.dom, ext_in.category, ext_in.source_name),
                   page_title |-> ext_in.dom.title]
    /\ ext_calls' = [queried |-> queried_selectors(ext_in.dom, SelectorsOf(ext_in)),
                     body_reads |-> body_reads(ext_in.dom, ext_in.category,
                                               ext_in.source_name)]
    /\ UNCHANGED <<ext_in, batchVars, runVars, aggVars, genVars, apiVars, scoreVars,
                   mongoVars>>

InitExtract ==
    /\ \E src \in ExtractSources : \E dom \in Doms(src) :
           ext_in = [source_name |-> src.source_name, category |-> src.category,
                     dom |-> dom]
    /\ ext_out = NoResult
    /\ ext_calls = <<>>
    /\ IdleMongo
    /\ IdleScore
    /\ IdleBatch
    /\ IdleRun
    /\ IdleAgg
    /\ IdleGen
    /\ IdleApi

NextExtract == Extract

SpecExtract == InitExtract /\ [][NextExtract]_vars

\* SpecMongo: the two client getters and the two close functions of
\* core/mongo_client.py in one process, with a server that comes and goes.
\* get_sync_mongo_client has no suspension point and is one step;
\* get_async_mongo_client awaits the ping, so coroutines calling it
\* interleave at that await.
MongoCallers == 1..2

Raised == [kind |-> "raised", client |-> 0]
Returned(client) == [kind |-> "returned", client |-> client]

\* the server goes down or comes back
ServerFlip ==
    /\ mongo_up' = ~mongo_up
    /\ UNCHANGED <<async_client, sync_client, pinged, next_client, async_calls, sync_call,
                   batchVars, runVars, aggVars, genVars, apiVars, scoreVars, extVars>>

\* get_sync_mongo_client, lines 62-83
GetSync ==
    /\ IF sync_client = 0
       THEN /\ next_client < MaxClients
            /\ next_client' = next_client + 1
            /\ sync_client' = next_client + 1
            /\ IF mongo_up
               THEN /\ pinged' = pinged \cup {next_client + 1}
                    /\ sync_call' = Returned(next_client + 1)
               ELSE /\ pinged' = pinged
                    /\ sync_call' = Raised
       ELSE /\ sync_call' = Returned(sync_client)
            /\ UNCHANGED <<sync_client, pinged, next_client>>
    /\ UNCHANGED <<async_client, mongo_up, async_calls,
                   batchVars, runVars, aggVars, genVars, apiVars, scoreVars, extVars>>

\* get_async_mongo_client up to its first suspension: lines 29-42 and the
\* start of the ping, or line 50 at once when the global is set
GetAsyncEnter(c) ==
    /\ async_calls[c].pc = "idle"
    /\ IF async_client = 0
       THEN /\ next_client < MaxClients
            /\ next_client' = next_client + 1
            /\ async_client' = next_client + 1
            /\ async_calls' = [async_calls EXCEPT ![c] =
                   [pc |-> "pinging", pinging |-> next_client + 1, outcome |-> NoCall]]
       ELSE /\ async_calls' = [async_calls EXCEPT ![c] =
                   [pc |-> "idle", pinging |-> 0, outcome |-> Returned(async_client)]]
            /\ UNCHANGED <<async_client, next_client>>
    /\ UNCHANGED <<sync_client, pinged, mongo_up, sync_call,
                   batchVars, runVars, aggVars, genVars, apiVars, scoreVars, extVars>>

\* the ping of line 42 answers or raises: lines 43-50
GetAsyncPinged(c) ==
    /\ async_calls[c].pc = "pinging"
    /\ IF mongo_up
       THEN /\ pinged' = pinged \cup {async_calls[c].pinging}
            /\ async_calls' = [async_calls EXCEPT ![c] =
                   [pc |-> "idle", pinging |-> 0,
                    outcome |-> IF async_client = 0 THEN [kind |-> "returned_none", client |-> 0]
                                ELSE Returned(async_client)]]
       ELSE /\ pinged' = pinged
            /\ async_calls' = [async_calls EXCEPT ![c] =
                   [pc |-> "idle", pinging |-> 0, outcome |-> Raised]]
    /\ UNCHANGED <<async_client, sync_client, next_client, mongo_up, sync_call,
                   batchVars, runVars, aggVars, genVars, apiVars, scoreVars, extVars>>

\* close_async_mongo_client, lines 108-114
CloseAsync ==
    /\ async_client # 0
    /\ async_client' = 0
    /\ UNCHANGED <<sync_client, pinged, next_client, mongo_up, async_calls, sync_call,
                   batchVars, runVars, aggVars, genVars, apiVars, scoreVars, extVars>>

\* close_sync_mongo_client, lines 117-123
CloseSync ==
    /\ sync_client # 0
    /\ sync_client' = 0
    /\ UNCHANGED <<async_client, pinged, next_client, mongo_up, async_calls, sync_call,
                   batchVars, runVars, aggVars, genVars, apiVars, scoreVars, extVars>>

InitMongo ==
    /\ async_client = 0
    /\ sync_client = 0
    /\ pinged = {}
    /\ next_client = 0
    /\ mongo_up \in BOOLEAN
    /\ async_calls = [c \in MongoCallers |-> [pc |-> "idle", pinging |-> 0, outcome |-> NoCall]]
    /\ sync_call = NoCall
    /\ IdleScore
    /\ IdleExt
    /\ IdleBatch
    /\ IdleRun
    /\ IdleAgg
    /\ IdleGen
    /\ IdleApi

NextMongo ==
    \/ ServerFlip
    \/ GetSync
    \/ \E c \in MongoCallers : GetAsyncEnter(c)
    \/ \E c \in MongoCallers : GetAsyncPinged(c)
    \/ CloseAsync
    \/ CloseSync

SpecMongo == InitMongo /\ [][NextMongo]_vars

----------------------------------------------------------------------------
\* Properties

WellFormed(i) == "url" \in DOMAIN sources[i].val

\* C1 -- coverage: the mapping _scrape_all_sources returns has exactly one
\* outcome per input source name (same keys, none missing, none extra, none
\* twice), whatever fetches failed or raised.
C1_Coverage ==
    bpc = "returned" =>
        /\ Keys(results) = Keys(sources)
        /\ Len(results) = Cardinality(Keys(sources))
        /\ \A i \in DOMAIN results : "status" \in DOMAIN results[i].val

\* a batch returned in which one fetch raised, one failed and one succeeded
C1_Witness ==
    /\ bpc = "returned"
    /\ \E i \in DOMAIN tasks : IsException(tasks[i].result)
    /\ \E i \in DOMAIN tasks : tasks[i].page = "timeout"
    /\ \E i \in DOMAIN tasks : tasks[i].page = "ok"

\* C2 -- at every instant at most max_concurrent_scrapes fetches are inside
\* _scrape_single_universal_source.
C2_BoundedConcurrency == Cardinality(InFlight) <= max_concurrent_scrapes

\* the pool is full while a further source waits for a slot
C2_Witness ==
    /\ Cardinality(InFlight) = max_concurrent_scrapes
    /\ \E i \in DOMAIN tasks : tasks[i].pc = "created"

\* C3 -- the outcome recorded for a source is decided by that source's own
\* fetch alone (its own source_info and the page its own site served), and
\* a batch with failed fetches is never stuck: it goes on until it returns.
C3_Independence ==
    /\ bpc = "returned" =>
          \A i \in DOMAIN sources :
              /\ results[i].key = sources[i].key
              /\ fetchCount[i] = 1
              /\ WellFormed(i) => tasks[i].page \in pageKinds
              /\ results[i].val.status =
                     (IF WellFormed(i) /\ tasks[i].page \in {"ok", "http_500"}
                      THEN "success" ELSE "error")
              /\ results[i].val.status = "success" =>
                     /\ results[i].val.url = sources[i].val.url
                     /\ results[i].val.category = sources[i].val.category
                     /\ results[i].val.data.extracted_for = sources[i].key
    /\ bpc = "gathering" => ENABLED NextBatch

\* a batch returned with a page not found, a timeout and a success
C3_Witness ==
    /\ bpc = "returned"
    /\ \E i \in DOMAIN tasks : tasks[i].page = "not_found"
    /\ \E i \in DOMAIN tasks : tasks[i].page = "timeout"
    /\ \E i \in DOMAIN tasks : results[i].val.status = "success"

Terminal == wpc \in {"done", "failed"}
ValidIdentity == args.company_name # "" /\ ~Falsy(args.company_url)
RunCompleted == wpc = "done" /\ \E d \in ByTask(TaskId) : d.status = "completed"
AllTimedOut ==
    /\ bpc = "returned"
    /\ tasks # <<>>
    /\ \A i \in DOMAIN tasks : tasks[i].page = "timeout"

\* C4 -- (as claimed) when every source of a universal run with a valid
\* identity times out, the dataset is empty, the quality score is 0.0 and
\* the run ends completed.
C4_AllTimeoutsComplete ==
    ( /\ Terminal
      /\ args.analysis_type = "universal"
      /\ ValidIdentity
      /\ AllTimedOut
      /\ llm = "ok" )
    => /\ analysis_result.raw_data = <<>>
       /\ analysis_result.data_quality_score = 0
       /\ RunCompleted

\* C5 -- (as claimed) a universal or comprehensive run with a valid identity
\* whose summarizer call succeeded ends completed, never failed.
C5_OnlyIdentityOrSummarizerFail ==
    ( /\ Terminal
      /\ args.analysis_type \in {"universal", "comprehensive"}
      /\ ValidIdentity
      /\ llm = "ok" )
    => RunCompleted

FetcherInvocations == SumOver(fetchCount, DOMAIN fetchCount)

\* C6 -- (as claimed) with an empty company name a universal run invokes the
\* fetcher zero times, and ends failed.
C6_EmptyNameNoFetch ==
    (args.analysis_type = "universal" /\ args.company_name = "")
    => /\ FetcherInvocations = 0
       /\ wpc # "done"

SummarizerError == <<"Agent analysis failed", "summarizer failed">>

Aggregated == aggRuns >= 1
IsSuccess(result) == Get(result, "status", None) = "success"
SuccessIdx == {i \in DOMAIN source_data : IsSuccess(source_data[i].val)}
FailureIdx == DOMAIN source_data \ SuccessIdx

\* the dataset the claim describes: dataset[category][source_name] for the
\* Success outcomes and nothing else
ExpectedDataset ==
    LET cats == {source_data[i].val.category : i \in SuccessIdx}
    IN  [c \in cats |->
            LET idx == {i \in SuccessIdx : source_data[i].val.category = c}
                names == {source_data[i].key : i \in idx}
            IN  [n \in names |->
                    source_data[CHOOSE i \in idx : source_data[i].key = n].val.data]]

\* the failure entries the returned dict carries: it has no key for them
diagnostics_of(out) == Get(out, "diagnostics", <<>>)

C9_ScoreRange ==
    (Aggregated /\ IsSuccess(agg_out)) =>
        /\ agg_out.data_quality_score \in 0..10000
        /\ agg_out.raw_data = <<>> => agg_out.data_quality_score = 0

\* a dataset whose categories are all filled: the score is 100.0
C9_Witness ==
    /\ Aggregated
    /\ IsSuccess(agg_out)
    /\ agg_out.data_quality_score = 10000
    /\ \E c \in DOMAIN agg_out.raw_data : Cardinality(DOMAIN agg_out.raw_data[c]) > 5

Generated == gpc \in {"generated", "prioritized"}
RegistryNames(n) == {RegistryOrder[i] : i \in 1..n}

TierRank == [critical |-> 1, high |-> 2, medium |-> 3, low |-> 4]
PositionIn(od, k) == CHOOSE i \in DOMAIN od : od[i].key = k

\* C12 -- the prioritized mapping has exactly the sources of the generated
\* one (none lost, none twice, each with its own info), in the order
\* critical, high, medium, low, and within a tier in the order of the input.
C12_PriorityThenInsertion ==
    gpc = "prioritized" =>
        /\ Len(prioritized) = Len(gen_urls)
        /\ Keys(prioritized) = Keys(gen_urls)
        /\ \A i \in DOMAIN prioritized :
               prioritized[i].val = Lookup(gen_urls, prioritized[i].key)
        /\ \A i, j \in DOMAIN prioritized :
               i < j =>
                   LET ti == TierRank[prioritized[i].val.priority]
                       tj == TierRank[prioritized[j].val.priority]
                   IN  /\ ti <= tj
                       /\ ti = tj => PositionIn(gen_urls, prioritized[i].key)
                                       < PositionIn(gen_urls, prioritized[j].key)

\* sources of all four tiers were reordered: the main website, generated
\* last, comes first and a low source comes last
C12_Witness ==
    /\ gpc = "prioritized"
    /\ {prioritized[i].val.priority : i \in DOMAIN prioritized}
           = {"critical", "high", "medium", "low"}
    /\ prioritized[1].key = "main_website"
    /\ gen_urls[Len(gen_urls)].key = "main_website"
    /\ prioritized[Len(prioritized)].val.priority = "low"
    /\ prioritized # gen_urls

NotFoundPages == {"not_found", "http_404", "empty_title"}
ServedNotFound(i) == tasks[i].pc = "done" /\ tasks[i].page \in NotFoundPages

UrlRequired == <<"Company URL is required">>

\* C17 -- (as claimed) a run submitted without company_url goes on to the
\* analysis; it never fails for lack of a URL.
C17_MissingUrlDiscovered ==
    Falsy(args.company_url) =>
        /\ ~(wpc \in {"except", "failed"} /\ error_msg = UrlRequired)
        /\ \A d \in ByTask(TaskId) : d.status = "failed" => d.error # UrlRequired

KnownTypes == {"standard", "comprehensive", "universal"}
StandardResults ==
    {profile_agent_run(args.company_url, scrape, llmo) :
        scrape \in ScrapeOutcomes, llmo \in LlmOutcomes}

\* C18 -- a task whose analysis_type is none of standard, comprehensive,
\* universal is run as a standard analysis: what the agent returns is a
\* result of CompanyProfileAgent.run on the company URL, and no source of
\* the universal or comprehensive collection is ever fetched.
C18_UnknownTypeRunsStandard ==
    args.analysis_type \notin KnownTypes =>
        /\ bpc = "idle"
        /\ tasks = <<>>
        /\ analysis_result # NoResult =>
               /\ analysis_result \in StandardResults
               /\ "company_name" \notin DOMAIN analysis_result
        /\ RunCompleted =>
               \E d \in ByTask(TaskId) :
                   /\ d.analysis_type = args.analysis_type
                   /\ d.analysis = [summary |-> LlmOutput.summary]

\* a task of an unknown type that ran the standard agent and was stored
C18_Witness ==
    /\ args.analysis_type = "invalid_type"
    /\ RunCompleted
    /\ "website_title" \in DOMAIN analysis_result

\* C20 -- (as claimed) every progress report of a universal run carries the
\* total_steps the run announced at its start, and that value is above 6.
C20_UniversalTotalSteps ==
    (args.analysis_type = "universal" /\ "total_steps" \in DOMAIN task_meta) =>
        /\ task_meta.total_steps > 6
        /\ task_meta.total_steps = total_steps(args)

\* C14 -- the collection never holds two records of one company URL (nor
\* two of one id), and a run that ends completed leaves the one record of
\* its URL completed under its own task id, whether it inserted the record
\* or updated one that was there.
C14_OneRecordPerUrl ==
    /\ \A d1, d2 \in profiles :
           (d1.company_url = d2.company_url \/ d1.id = d2.id) => d1 = d2
    /\ wpc = "done" =>
           \E d \in ByUrl(args.company_url) :
               /\ d.status = "completed"
               /\ d.task_id = request_id
               /\ d.analysis_type = args.analysis_type

\* the second task for the URL ended completed in the record of the first
C14_Witness ==
    /\ wpc = "done"
    /\ request_id = CeleryTaskId(2)
    /\ \E d \in profiles : d.id = 1 /\ d.status = "completed"
    /\ Cardinality(profiles) = 1

SameCompany(d, req) ==
    IF Falsy(req.company_url)
    THEN Get(d, "company_name", None) = req.company_name
    ELSE Get(d, "company_url", None) = req.company_url

CacheHits(req) ==
    {d \in profiles : /\ Get(d, "status", None) = "completed"
                      /\ SameCompany(d, req)
                      /\ Get(d, "analysis_type", None) = req.analysis_type}

\* C15 -- when a submit looks the company up and a completed record of the
\* requested analysis type exists, the submit is answered with the id of
\* such a record and sends no task; with no such record (among them a
\* completed record of another type) nothing cached is returned.
C15_CachedSameType ==
    [][ \A r \in DOMAIN submits :
            (submits[r].pc = "new" /\ r \in DOMAIN submits' /\ submits'[r].pc # "new") =>
                IF CacheHits(submits[r].req) # {}
                THEN /\ submits'[r].pc = "responded"
                     /\ submits'[r].response \in
                            {ObjectIdStr(d.id) : d \in CacheHits(submits[r].req)}
                     /\ submits'[r].task = None
                     /\ issued' = issued
                     /\ queue' = queue
                ELSE submits'[r].pc = "checked" ]_vars

\* a submit answered from the cache: no task of its own, and the id it got
\* is that of a completed record of its analysis type
C15_Witness ==
    \E r \in DOMAIN submits :
        /\ submits[r].pc = "responded"
        /\ submits[r].task = None
        /\ \E d \in CacheHits(submits[r].req) : submits[r].response = ObjectIdStr(d.id)
        /\ issued = 1

ActiveFor(url) ==
    \/ \E i \in DOMAIN queue : queue[i].args.company_url = url
    \/ wpc \notin {"idle", "done", "failed"} /\ args.company_url = url

\* C16 -- (as claimed) no task is sent to the broker for a company URL
\* while a task for that URL is waiting or running.
C16_NoSecondTask ==
    [][ issued' > issued => ~ActiveFor(queue'[Len(queue')].args.company_url) ]_vars

\* C19 -- every GET /report is answered 400 for an id that is no object id,
\* 200 with the report for the id of a completed record, and 404 for an
\* object id whose record is absent, pending or failed.
C19_ReportOnlyCompleted ==
    [][ report' # report =>
            LET company_id == report'.company_id
                response == report'.response
                docs == {d \in profiles : ObjectIdStr(d.id) = company_id}
            IN  IF company_id \notin {ObjectIdStr(n) : n \in 1..(2 * MaxSubmits)}
                THEN response.code = 400
                ELSE IF \E d \in docs : d.status = "completed"
                THEN /\ response.code = 200
                     /\ response.company_id = company_id
                     /\ response.summary = LlmOutput.summary
                ELSE response.code = 404 ]_vars

\* a report asked for the id of a record that is there but failed
C19_Witness ==
    /\ report # <<>>
    /\ report.response.code = 404
    /\ \E d \in profiles :
           /\ ObjectIdStr(d.id) = report.company_id
           /\ d.status = "failed"

\* the page kinds of a failed load: page.goto raised (navigation failure or
\* timeout) or the response carries an HTTP status of 400 and above
FailedLoads ==
    GotoRaises \cup {p \in PageKinds \ GotoRaises : response_status(p) >= 400}

\* C21 -- a fetch never raises to its caller: after a navigation failure, an
\* HTTP status of 400 and above or a timeout, _scrape_single_universal_source
\* and _scrape_website alike return a result of status "error" that carries
\* a message.
C21_FailedLoadIsError ==
    \A i \in DOMAIN tasks :
        (tasks[i].pc = "done" /\ WellFormed(i) /\ tasks[i].page \in FailedLoads) =>
            LET universal == tasks[i].result
                profile   == scrape_website(sources[i].val.url, tasks[i].page)
            IN  /\ ~IsException(universal)
                /\ universal.status = "error"
                /\ universal.error # ""
                /\ ~IsException(profile)
                /\ profile.status = "error"
                /\ profile.error # ""

\* the weights the score is documented with, in tenths
ListedWeight(c) ==
    CASE c = "primary"      -> 10
      [] c = "financial"    -> 9
      [] c = "professional" -> 8
      [] c = "employment"   -> 7
      [] c = "reviews"      -> 6
      [] c = "technology"   -> 5
      [] c = "news"         -> 4
      [] c = "social"       -> 3
      [] OTHER              -> 2

\* 100 * sum(min(n_c * 0.2, 1.0) * w_c) / sum(w_c) for per-category counts n,
\* as the pair <<numerator, denominator>> in hundredths
ListedScore(n) ==
    LET cats == DOMAIN n
    IN  << SumOver([c \in cats |-> (IF 2 * n[c] < 10 THEN 2 * n[c] ELSE 10)
                                       * ListedWeight(c) * 1000], cats),
           SumOver([c \in cats |-> ListedWeight(c)], cats) >>

\* q is num/den rounded to the nearest integer
IsRounded(q, num, den) == 2 * q * den - den <= 2 * num /\ 2 * num <= 2 * q * den + den

QualCounts == [c \in DOMAIN qual_data |-> Cardinality(DOMAIN qual_data[c])]

\* C22 -- the quality score is 100 * sum(min(n_c * 0.2, 1.0) * w_c) /
\* sum(w_c) over the present categories, rounded to 2 decimals, with the
\* listed weights and 0.2 for any other category; it is at least 20 for a
\* non-empty dataset and exactly 100 iff every present category has at
\* least 5 sources.
C22_ScoreFormula ==
    qual_data # <<>> =>
        /\ IsRounded(qual_score, ListedScore(QualCounts)[1], ListedScore(QualCounts)[2])
        /\ qual_score >= 2000
        /\ qual_score = 10000 <=> \A c \in DOMAIN qual_data : QualCounts[c] >= 5

\* a dataset with a full category, a partly filled one and a category without
\* a listed weight
C22_Witness ==
    /\ \E c \in DOMAIN qual_data : QualCounts[c] >= 5
    /\ \E c \in DOMAIN qual_data : QualCounts[c] \in 2..4
    /\ "analytics" \in DOMAIN qual_data
    /\ qual_score \in 2001..9999

\* C28 (as stated) -- adding one more successful source never decreases the
\* quality score, whether it joins a category or opens one.
C28_NeverDecreases ==
    qual_prev # <<>> => qual_score >= qual_prev.score

\* C28 -- adding one more successful source to a category the dataset already
\* has never decreases the quality score; a source that opens a category
\* never takes the score below 20 nor below what it was when that was at
\* most 20.
C28_JoinNeverDecreases ==
    qual_prev # <<>> =>
        IF qual_prev.opened
        THEN qual_score >= Min(qual_prev.score, 2000)
        ELSE qual_score >= qual_prev.score

\* a source joined a category and raised the score, in a dataset of several
\* categories
C28_Witness ==
    /\ qual_prev # <<>>
    /\ ~qual_prev.opened
    /\ qual_score > qual_prev.score
    /\ Cardinality(DOMAIN qual_data) >= 3

\* C23 -- every fetch gives its pool slot back when it ends, on success and
\* on failure alike (the free slots and the fetches in flight always add up
\* to max_concurrent_scrapes); provided every fetch returns or times out,
\* the batch eventually returns, every source having acquired a slot and
\* ended its fetch, with the outcome of every source.
C23_SlotsReleasedBatchEnds ==
    /\ [](semaphore + Cardinality(InFlight) = max_concurrent_scrapes)
    /\ <>( /\ bpc = "returned"
           /\ \A i \in DOMAIN tasks : tasks[i].pc = "done" /\ fetchCount[i] = 1
           /\ Keys(results) = Keys(sources) )

\* a batch of more sources than slots returned after every fetch timed out,
\* with every slot free again
C23_Witness ==
    /\ bpc = "returned"
    /\ Len(sources) > max_concurrent_scrapes
    /\ \A i \in DOMAIN tasks : tasks[i].page = "timeout"
    /\ Len(results) = Len(sources)
    /\ semaphore = max_concurrent_scrapes

\* the source names of the dataset a run returned
InDataset(cd) == UNION {DOMAIN cd[c] : c \in DOMAIN cd}

\* C24 -- within one run every resolved source is fetched at most once: a
\* source whose fetch failed is not fetched again, and it is absent from the
\* dataset of the run.
C24_FetchedAtMostOnce ==
    /\ \A i \in DOMAIN fetchCount : fetchCount[i] <= 1
    /\ bpc = "returned" => \A i \in DOMAIN fetchCount : fetchCount[i] = 1
    /\ (bpc = "returned" /\ "raw_data" \in DOMAIN analysis_result) =>
           \A i \in DOMAIN results :
               results[i].val.status # "success" =>
                   results[i].key \notin InDataset(analysis_result.raw_data)

\* a universal run aggregated a batch in which one fetch timed out, one was
\* refused and one succeeded
C24_Witness ==
    /\ bpc = "returned"
    /\ "raw_data" \in DOMAIN analysis_result
    /\ InDataset(analysis_result.raw_data) # {}
    /\ \E i \in DOMAIN tasks : tasks[i].page = "timeout"
    /\ \E i \in DOMAIN tasks : tasks[i].page = "nav_error"

Extracted == ext_out # NoResult

\* the probes of field i of the page's category, and those that match an
\* element with non-empty text
ProbesOfField(i) == SelectorsOf(ext_in)[i].val
Matching(i) ==
    {k \in DOMAIN ProbesOfField(i) : ProbeOf(ext_in.dom, ProbesOfField(i)[k]) = "text"}
FirstMatching(i) == CHOOSE k \in Matching(i) : \A j \in Matching(i) : k <= j

\* C25 -- for each field of the category's vocabulary the record holds the
\* stripped text of the first probe of the field's list that matches an
\* element with non-empty text; the probes after it are not consulted, the
\* probes before it (raising ones included) are passed over, and a field
\* without matching probe is absent from the record.
C25_FirstMatchingProbe ==
    Extracted =>
        \A i \in DOMAIN SelectorsOf(ext_in) :
            LET field == SelectorsOf(ext_in)[i].key
                probes == ProbesOfField(i)
            IN  IF Matching(i) = {}
                THEN /\ field \notin DOMAIN ext_out.data
                     /\ Range(probes) \subseteq ext_calls.queried
                ELSE /\ field \in DOMAIN ext_out.data
                     /\ ext_out.data[field] = <<probes[FirstMatching(i)]>>
                     /\ \A k \in DOMAIN probes :
                            probes[k] \in ext_calls.queried <=> k <= FirstMatching(i)

\* a field whose first probe raised and whose second and third probes both
\* match: the record holds the text of the second
C25_Witness ==
    /\ Extracted
    /\ \E i \in DOMAIN SelectorsOf(ext_in) :
           /\ Len(ProbesOfField(i)) = 3
           /\ ProbeOf(ext_in.dom, ProbesOfField(i)[1]) = "raises"
           /\ Matching(i) = {2, 3}
           /\ ext_out.data[SelectorsOf(ext_in)[i].key] = <<ProbesOfField(i)[2]>>

\* the categories _extract_by_category names, and the keys of a record
NamedCategories ==
    {"financial", "professional", "employment", "reviews", "technology", "news", "social"}
Vocabulary == {SelectorsOf(ext_in)[i].key : i \in DOMAIN SelectorsOf(ext_in)}
MentionsKeys == {c \o "_mentions" : c \in NamedCategories}

\* seq is a subsequence of the stripped lines, in their order
RECURSIVE InPageOrder(_, _)
InPageOrder(seq, lines) ==
    IF seq = <<>> THEN TRUE
    ELSE IF lines = <<>> THEN FALSE
    ELSE IF Head(seq) = Strip(Head(lines)) THEN InPageOrder(Tail(seq), Tail(lines))
    ELSE InPageOrder(seq, Tail(lines))

\* C26 -- for every named category extractor the keyword scan of the page
\* body runs if and only if the probes extracted no field; what it finds is
\* stored under one *_mentions key: at most 10 lines, each with a keyword of
\* the category, in page order.
C26_ScanIffNoFields ==
    (Extracted /\ ext_in.category \in NamedCategories /\ ext_in.dom.body.kind = "text") =>
        LET data == ext_out.data
            mentions == DOMAIN data \cap MentionsKeys
        IN  /\ (DOMAIN data \cap Vocabulary = {}) <=> (mentions # {})
            /\ (DOMAIN data \cap Vocabulary = {}) <=> (ext_calls.body_reads = 1)
            /\ mentions \subseteq {ext_in.category \o "_mentions"}
            /\ \A m \in mentions :
                   /\ Len(data[m]) <= 10
                   /\ InPageOrder(data[m], ext_in.dom.body.lines)
                   /\ \A k \in DOMAIN data[m] :
                          \E w \in DOMAIN data[m][k] : Lower(data[m][k][w]) \in financial_keywords

\* C27 -- an exception raised inside a category extractor never leaves the
\* extraction: the fetch returns Success and the record is the generic
\* content {title, content, content_length}.
C27_ExceptionGivesGenericContent ==
    (Extracted /\ ext_in.dom.body.kind = "raises" /\ ext_calls.body_reads > 0) =>
        /\ ext_out.status = "success"
        /\ DOMAIN ext_out.data = {"title", "content", "content_length"}

\* C29 -- a completed record whose report can be retrieved stays
\* retrievable, completed and under the same id, whatever is submitted or
\* run afterwards for the same URL, a later failing run of another analysis
\* type included.
C29_CompletedStaysRetrievable ==
    [][ \A company_id \in ReportIds :
            get_company_report(company_id).code = 200 =>
                /\ get_company_report(company_id)'.code = 200
                /\ \E d \in profiles' : /\ ObjectIdStr(d.id) = company_id
                                         /\ d.status = "completed" ]_vars

\* the clients the getters handed to their callers
HandedOut ==
    {async_calls[c].outcome.client :
        c \in {d \in DOMAIN async_calls : async_calls[d].outcome.kind = "returned"}}
    \cup (IF sync_call.kind = "returned" THEN {sync_call.client} ELSE {})

\* C30 -- the getters return a client only after a ping of that client has
\* succeeded, and a client whose connection test failed is not left in the
\* cached global: a global that is set and not being tested holds a client
\* whose ping succeeded.
C30_ClientOnlyAfterPing ==
    /\ HandedOut \subseteq pinged
    /\ sync_client # 0 => sync_client \in pinged
    /\ (async_client # 0 /\ \A c \in DOMAIN async_calls : async_calls[c].pinging # async_client)
           => async_client \in pinged

====
